---------------------------- MODULE Spec2Model ----------------------------
(***************************************************************************)
(* Model of src/02_theano_perceptron.ipynb: the dataset filter             *)
(* select_classes_from_cifar10, the compiled train / compute_loss /        *)
(* predict functions, the training loop and the inference loop.            *)
(*                                                                         *)
(* Python lists are sequences; Python positions are 0-based and are kept   *)
(* 0-based wherever the program stores them (labels, c_idx, r).            *)
(***************************************************************************)
EXTENDS Integers, Sequences, FiniteSets, TLC

VARIABLES
    classes,            \* argument of select_classes_from_cifar10
    dataset,            \* argument of select_classes_from_cifar10
    frame,              \* locals of the running call of select_classes_from_cifar10
    ret,                \* how that call ended: running, returned a value, raised
    X_train, Y_train,   \* notebook globals set by the call site
    X_val, Y_val,
    w, b, lr,           \* the backend variables w, b and lr
    nb_epochs, epoch,   \* the training loop's range and loop variable
    loss_train, loss_val,
    train_loss_history, val_loss_history,
    r, sample, prediction,  \* locals of the inference loop
    figure,             \* what the current matplotlib figure shows
    pc,                 \* position in the training and inference cells
    param_trace         \* history: <<w, b>> at the start and after every update

selectVars == <<classes, dataset, frame, ret>>
globals == <<X_train, Y_train, X_val, Y_val>>
params == <<w, b, lr>>
loopVars == <<nb_epochs, epoch, loss_train, loss_val, train_loss_history, val_loss_history>>
demoVars == <<r, sample, prediction>>
runVars == <<params, loopVars, demoVars, figure, pc, param_trace>>
vars == <<selectVars, globals, runVars>>

(***************************************************************************)
(* Bounds of the model.                                                    *)
(***************************************************************************)
MaxClasses == 3     \* longest class list tried
MaxTrain == 2       \* most examples in the train split of the raw dataset
MaxVal == 1         \* most examples in the validation split of the raw dataset
NumPixels == 1      \* pixels per image (height * width * channels in the source)
MaxBatch == 2       \* most raw examples per split when the training cells run
MaxEpochs == 11     \* largest nb_epochs tried
Unit == 100         \* fixed point: the integer v stands for the real v / Unit

ClassPool == {"cat", "horse", "truck", "zebra"}   \* names a caller may pass
LabelPool == {3, 7, 9}                            \* raw labels in the dataset
PixelPool == {0, 1, 2}                            \* raw pixel values
ShadedLabels == {3, 7}
ShadedClassLists ==
    {<<"horse">>, <<"zebra", "horse">>, <<"horse", "truck">>, <<"truck", "horse">>}

(***************************************************************************)
(* Constants of the notebook.                                              *)
(***************************************************************************)
LrNum == 1
LrDen == 10
\* lr = K.variable(0.1)
LearningRate == [num |-> LrNum, den |-> LrDen]

\* if epoch % 10 == 0
PlotEvery == 10

\* no figure has been drawn yet
NoFigure == [kind |-> "none"]

(***************************************************************************)
(* Generic helpers on sequences.                                           *)
(***************************************************************************)
SeqsUpTo(S, n) == UNION {[1..k -> S] : k \in 0..n}

Range(q) == {q[i] : i \in DOMAIN q}

\* Python's  x in q
In(x, q) == \E i \in DOMAIN q : q[i] = x

\* Python's  q.index(x)  for x in q: the 0-based position of the first x
ListIndex(q, x) == (CHOOSE i \in DOMAIN q : q[i] = x /\ \A j \in 1..(i-1) : q[j] # x) - 1

\* Python's  sorted(q)  on a list of integers
RECURSIVE Insert(_, _)
Insert(x, q) ==
    IF q = <<>> THEN <<x>>
    ELSE IF x <= Head(q) THEN <<x>> \o q
    ELSE <<Head(q)>> \o Insert(x, Tail(q))

RECURSIVE sorted(_)
sorted(q) == IF q = <<>> THEN <<>> ELSE Insert(Head(q), sorted(Tail(q)))

\* numpy's boolean-mask indexing  a[mask]
RECURSIVE MaskSelect(_, _)
MaskSelect(a, mask) ==
    IF a = <<>> THEN <<>>
    ELSE IF Head(mask) THEN <<Head(a)>> \o MaskSelect(Tail(a), Tail(mask))
    ELSE MaskSelect(Tail(a), Tail(mask))

Max(S) == CHOOSE m \in S : \A x \in S : x <= m

(***************************************************************************)
(* select_classes_from_cifar10                                             *)
(***************************************************************************)
allowed == <<"airplane", "automobile", "bird", "cat", "deer",
             "dog", "frog", "horse", "ship", "truck">>

AcceptsSingleName(cls) ==
    (\E i \in DOMAIN cls : ~ In(cls[i], cls)) \/ ~ (Len(cls) > 0)

\* the guard of the raise, as the source writes it: each name is looked up
\* in the list it was taken from
ClassArgumentsRejected(cls) ==
    (\E i \in DOMAIN cls : ~ In(cls[i], cls)) \/ ~ (Len(cls) > 1)

\* allowed.index(c) raises ValueError for a name that is not in the tuple
IndexRaises(cls) == \E i \in DOMAIN cls : ~ In(cls[i], allowed)

ClassIndexes(cls) == [i \in DOMAIN cls |-> ListIndex(allowed, cls[i])]

MaskOfFirstClassOnly(Y, cidx) == [i \in DOMAIN Y |-> Y[i] = cidx[1]]

\* [True if y[0] in c_idx else False for y in Y]
MaskOf(Y, cidx) == [i \in DOMAIN Y |-> In(Y[i], cidx)]

Unsorted(cidx) == cidx

\* s = sorted(c_idx)
SortedIndexes(cidx) == sorted(cidx)

\* [s.index(y[0]) for y in Y[idx]]
Relabel(Y, mask, s) ==
    LET kept == MaskSelect(Y, mask)
    IN  [i \in DOMAIN kept |-> ListIndex(s, kept[i])]

\* X.max() of a non-empty matrix
MatrixMax(X) == Max(UNION {Range(X[i]) : i \in DOMAIN X})

\* X / m, element by element.  A quotient is kept as the pair it was formed
\* from: den = 0 is the float division by zero (nan for 0/0, inf otherwise).
Divide(X, m) == [i \in DOMAIN X |-> [j \in DOMAIN X[i] |-> [num |-> X[i][j], den |-> m]]]

DivisorOfOwnSplit(Xtr, Xv) == IF Xv = <<>> THEN MatrixMax(Xtr) ELSE MatrixMax(Xv)

\* the divisor of X_val in the return statement: X_train.max()
ValDivisor(Xtr, Xv) == MatrixMax(Xtr)

Running == [kind |-> "running"]
RaiseValueError(line) == [kind |-> "raise", exc |-> "ValueError", line |-> line]

\* the value of the return statement, for a non-empty filtered X_train
Returned(Xtr, Ytr, Xv, Yv) ==
    [kind |-> "return",
     train |-> [X |-> Divide(Xtr, MatrixMax(Xtr)), Y |-> Ytr],
     val |-> [X |-> Divide(Xv, ValDivisor(Xtr, Xv)), Y |-> Yv]]

\* the call as a function of its arguments
SelectOutcome(d, cls) ==
    IF ClassArgumentsRejected(cls) THEN RaiseValueError(114)
    ELSE IF IndexRaises(cls) THEN RaiseValueError(118)
    ELSE LET cidx == ClassIndexes(cls)
             mt == MaskOf(d.train.Y, cidx)
             mv == MaskOf(d.val.Y, cidx)
             Xtr == MaskSelect(d.train.X, mt)
             Xv == MaskSelect(d.val.X, mv)
             s == SortedIndexes(cidx)
         IN  IF Xtr = <<>> THEN RaiseValueError(135)
             ELSE Returned(Xtr, Relabel(d.train.Y, mt, s), Xv, Relabel(d.val.Y, mv, s))

(***************************************************************************)
(* Inputs of the call.  Both raw splits hold at least one example, as the  *)
(* splits of cifar10.load_data() do.  Two families of datasets are tried:  *)
(*  - tagged: every label of LabelPool in every position, the image of    *)
(*    position i filled with the pixel value i, so that an image tells     *)
(*    which raw example it is; every class list over ClassPool;            *)
(*  - shaded: labels of ShadedLabels, images of ImagePool, a few class     *)
(*    lists; this family varies the pixel values.                          *)
(***************************************************************************)
SeqsFromTo(S, lo, hi) == UNION {[1..k -> S] : k \in lo..hi}

TaggedSplits(L, n) ==
    {[X |-> [i \in DOMAIN Y |-> [j \in 1..NumPixels |-> i]], Y |-> Y] :
        Y \in SeqsFromTo(L, 1, n)}

ImagePool == {[j \in 1..NumPixels |-> IF j = 1 THEN p ELSE 0] : p \in PixelPool}

ShadedSplits(n) ==
    {[X |-> [i \in DOMAIN e |-> e[i].x], Y |-> [i \in DOMAIN e |-> e[i].y]] :
        e \in SeqsFromTo([x : ImagePool, y : ShadedLabels], 1, n)}

NewFrame == [pc |-> "validate", X_train |-> <<>>, Y_train |-> <<>>,
             X_val |-> <<>>, Y_val |-> <<>>, c_idx |-> <<>>,
             idx_train |-> <<>>, idx_val |-> <<>>, s |-> <<>>,
             names |-> {"dataset", "classes", "allowed"}]

InitSelect ==
    /\ \/ /\ classes \in SeqsUpTo(ClassPool, MaxClasses)
          /\ dataset \in [train : TaggedSplits(LabelPool, MaxTrain),
                          val : TaggedSplits(LabelPool, MaxVal)]
       \/ /\ classes \in ShadedClassLists
          /\ dataset \in [train : ShadedSplits(MaxTrain), val : ShadedSplits(MaxVal)]
    /\ frame = NewFrame
    /\ ret = Running
    /\ X_train = <<>> /\ Y_train = <<>> /\ X_val = <<>> /\ Y_val = <<>>
    /\ w = <<>> /\ b = 0 /\ lr = LearningRate
    /\ nb_epochs = 0 /\ epoch = -1 /\ loss_train = 0 /\ loss_val = 0
    /\ train_loss_history = <<>> /\ val_loss_history = <<>>
    /\ r = 0 /\ sample = <<>> /\ prediction = 0
    /\ figure = NoFigure /\ pc = "select" /\ param_trace = <<>>

\* lines 112-114 (allowed is bound by line 112 in either case)
Validate ==
    /\ ret.kind = "running" /\ frame.pc = "validate"
    /\ IF ClassArgumentsRejected(classes)
       THEN /\ ret' = RaiseValueError(114)
            /\ frame' = [frame EXCEPT !.pc = "raised"]
       ELSE /\ ret' = ret
            /\ frame' = [frame EXCEPT !.pc = "unpack"]
    /\ UNCHANGED <<classes, dataset, globals, runVars>>

\* line 116
Unpack ==
    /\ ret.kind = "running" /\ frame.pc = "unpack"
    /\ frame' = [frame EXCEPT !.pc = "c_idx",
                              !.X_train = dataset.train.X, !.Y_train = dataset.train.Y,
                              !.X_val = dataset.val.X, !.Y_val = dataset.val.Y,
                              !.names = @ \cup {"X_train", "Y_train", "X_val", "Y_val"}]
    /\ UNCHANGED <<classes, dataset, ret, globals, runVars>>

\* line 118
ComputeClassIndexes ==
    /\ ret.kind = "running" /\ frame.pc = "c_idx"
    /\ IF IndexRaises(classes)
       THEN /\ ret' = RaiseValueError(118)
            /\ frame' = [frame EXCEPT !.pc = "raised"]
       ELSE /\ ret' = ret
            /\ frame' = [frame EXCEPT !.pc = "mask", !.c_idx = ClassIndexes(classes),
                                      !.names = @ \cup {"c_idx"}]
    /\ UNCHANGED <<classes, dataset, globals, runVars>>

\* lines 121-122
FindIds ==
    /\ ret.kind = "running" /\ frame.pc = "mask"
    /\ frame' = [frame EXCEPT !.pc = "filter",
                              !.idx_train = MaskOf(frame.Y_train, frame.c_idx),
                              !.idx_val = MaskOf(frame.Y_val, frame.c_idx),
                              !.names = @ \cup {"idx_train", "idx_val"}]
    /\ UNCHANGED <<classes, dataset, ret, globals, runVars>>

\* lines 125-128: the images are carried flat, in the row-major order that
\* np.reshape keeps
FilterAndReshape ==
    /\ ret.kind = "running" /\ frame.pc = "filter"
    /\ frame' = [frame EXCEPT !.pc = "adjust",
                              !.X_train = MaskSelect(frame.X_train, frame.idx_train),
                              !.X_val = MaskSelect(frame.X_val, frame.idx_val)]
    /\ UNCHANGED <<classes, dataset, ret, globals, runVars>>

\* lines 131-133
AdjustY ==
    /\ ret.kind = "running" /\ frame.pc = "adjust"
    /\ LET s == SortedIndexes(frame.c_idx)
       IN  frame' = [frame EXCEPT !.pc = "return", !.s = s,
                                  !.Y_train = Relabel(frame.Y_train, frame.idx_train, s),
                                  !.Y_val = Relabel(frame.Y_val, frame.idx_val, s),
                                  !.names = @ \cup {"s"}]
    /\ UNCHANGED <<classes, dataset, ret, globals, runVars>>

\* line 135: X_train.max() of an empty matrix raises ValueError
Return ==
    /\ ret.kind = "running" /\ frame.pc = "return"
    /\ IF frame.X_train = <<>>
       THEN /\ ret' = RaiseValueError(135)
            /\ frame' = [frame EXCEPT !.pc = "raised"]
       ELSE /\ ret' = Returned(frame.X_train, frame.Y_train, frame.X_val, frame.Y_val)
            /\ frame' = [frame EXCEPT !.pc = "returned"]
    /\ UNCHANGED <<classes, dataset, globals, runVars>>

\* line 140: the call site unpacks the returned pair of pairs
AssignResult ==
    /\ ret.kind = "return" /\ frame.pc = "returned"
    /\ X_train' = ret.train.X /\ Y_train' = ret.train.Y
    /\ X_val' = ret.val.X /\ Y_val' = ret.val.Y
    /\ frame' = [frame EXCEPT !.pc = "assigned"]
    /\ UNCHANGED <<classes, dataset, ret, runVars>>

NextSelect ==
    \/ Validate
    \/ Unpack
    \/ ComputeClassIndexes
    \/ FindIds
    \/ FilterAndReshape
    \/ AdjustY
    \/ Return
    \/ AssignResult

SpecSelect == InitSelect /\ [][NextSelect]_vars

(***************************************************************************)
(* The model, the loss and the compiled backend functions.                 *)
(*                                                                         *)
(* Reals are carried in fixed point: the integer v stands for v / Unit.    *)
(* A feature is the quotient select_classes_from_cifar10 returned.  The    *)
(* backend's sigmoid and logarithm are evaluated at that resolution by     *)
(* rational approximations (z / (1 + |z|) and 2 (p - 1) / (p + 1)), the    *)
(* gradients by the closed form of d loss / d w and d loss / d b.          *)
(***************************************************************************)
RECURSIVE SumSeq(_)
SumSeq(q) == IF q = <<>> THEN 0 ELSE Head(q) + SumSeq(Tail(q))

Abs(z) == IF z < 0 THEN -z ELSE z

Fixed(q) == (q.num * Unit) \div q.den

\* K.dot(x, w)
Dot(x, wv) == SumSeq([j \in DOMAIN x |-> Fixed(x[j]) * wv[j]]) \div Unit

\* K.sigmoid
Sigmoid(z) == (Unit \div 2) + ((Unit * z) \div (2 * (Unit + Abs(z))))

\* y = K.sigmoid(K.dot(x, w) + b)
Output(x, wv, bv) == Sigmoid(Dot(x, wv) + bv)

\* the backend clips the prediction away from 0 and 1 before the logarithm
Clip(y) == IF y < 1 THEN 1 ELSE IF y > Unit - 1 THEN Unit - 1 ELSE y

\* - log(y)
NegLog(y) == (2 * Unit * (Unit - y)) \div (Unit + y)

\* K.binary_crossentropy(output=y, target=target)
BinaryCrossentropy(y, target) ==
    target * NegLog(Clip(y)) + (1 - target) * NegLog(Unit - Clip(y))

\* the mean of no values: nan.  No loss is negative, so -1 is free to stand for it.
NaN == -1

\* K.mean
Mean(q) == IF q = <<>> THEN NaN ELSE SumSeq(q) \div Len(q)

\* loss = K.mean(K.binary_crossentropy(output=y, target=target))
Loss(X, Y, wv, bv) ==
    Mean([i \in DOMAIN X |-> BinaryCrossentropy(Output(X[i], wv, bv), Y[i])])

\* d loss / d (x.w + b) of one example, times the batch size
Delta(x, target, wv, bv) ==
    LET y == Output(x, wv, bv)
    IN  IF y = Clip(y) THEN y - target * Unit ELSE 0

\* grads[0]
GradW(X, Y, wv, bv) ==
    [j \in DOMAIN wv |->
        SumSeq([i \in DOMAIN X |-> Delta(X[i], Y[i], wv, bv) * Fixed(X[i][j])])
            \div (Unit * Len(X))]

\* grads[1]
GradB(X, Y, wv, bv) ==
    SumSeq([i \in DOMAIN X |-> Delta(X[i], Y[i], wv, bv)]) \div Len(X)

\* lr * g
Times(rate, g) == (rate.num * g) \div rate.den

\* A compiled K.function is its outputs together with the values it leaves
\* in the backend variables w and b.

trainSequentially(X, Y, wv, bv, rate) ==
    LET w1 == [j \in DOMAIN wv |-> wv[j] - Times(rate, GradW(X, Y, wv, bv)[j])]
    IN  [out |-> Loss(X, Y, wv, bv), w |-> w1,
         b |-> bv - Times(rate, GradB(X, Y, w1, bv))]

trainReportingNewLoss(X, Y, wv, bv, rate) ==
    LET w1 == [j \in DOMAIN wv |-> wv[j] - Times(rate, GradW(X, Y, wv, bv)[j])]
        b1 == bv - Times(rate, GradB(X, Y, wv, bv))
    IN  [out |-> Loss(X, Y, w1, b1), w |-> w1, b |-> b1]

\* train = K.function(inputs=[x, target], outputs=[loss], updates=updates):
\* the outputs and every update expression are evaluated on the values the
\* variables hold when the function is called
train(X, Y, wv, bv, rate) ==
    [out |-> Loss(X, Y, wv, bv),
     w |-> [j \in DOMAIN wv |-> wv[j] - Times(rate, GradW(X, Y, wv, bv)[j])],
     b |-> bv - Times(rate, GradB(X, Y, wv, bv))]

computeLossWithUpdates(X, Y, wv, bv, rate) ==
    IF X = <<>> THEN [out |-> NaN, w |-> wv, b |-> bv] ELSE train(X, Y, wv, bv, rate)

\* compute_loss = K.function(inputs=[x, target], outputs=[loss])
compute_loss(X, Y, wv, bv, rate) == [out |-> Loss(X, Y, wv, bv), w |-> wv, b |-> bv]

\* predict = K.function(inputs=[x], outputs=[y])
predict(x, wv, bv) == [out |-> Output(x, wv, bv), w |-> wv, b |-> bv]

\* Python 2's round: halves go away from zero
round(y) == IF 2 * y >= Unit THEN 1 ELSE 0

FirstLabel(Y, k) == Y[1]

\* Y_val[r]
LabelAt(Y, k) == Y[k + 1]

RunsOneMoreEpoch(e, n) == e + 1 <= n

\* for epoch in range(nb_epochs): is there an item after e
RangeHasNext(e, n) == e + 1 < n

(***************************************************************************)
(* The training cell and the inference cell.                               *)
(***************************************************************************)
RunTrainLabels == {7, 9}
W0Pool == {[j \in 1..NumPixels |-> c] : c \in {-Unit, Unit}}
B0Pool == {Unit \div 2}

\* the state after the cells above the training cell have run: the data of a
\* call with classes=['horse', 'truck'] that returned, w and b drawn once
InitRun ==
    /\ classes = <<"horse", "truck">>
    /\ dataset \in [train : TaggedSplits(RunTrainLabels, MaxBatch),
                    val : TaggedSplits(LabelPool, MaxBatch)]
    /\ ret = SelectOutcome(dataset, classes)
    /\ ret.kind = "return"
    /\ frame = [NewFrame EXCEPT !.pc = "assigned"]
    /\ X_train = ret.train.X /\ Y_train = ret.train.Y
    /\ X_val = ret.val.X /\ Y_val = ret.val.Y
    /\ w \in W0Pool /\ b \in B0Pool /\ lr = LearningRate
    /\ nb_epochs \in 0..MaxEpochs /\ epoch = -1
    /\ loss_train = 0 /\ loss_val = 0
    /\ train_loss_history = <<>> /\ val_loss_history = <<>>
    /\ r = 0 /\ sample = <<>> /\ prediction = 0
    /\ figure = NoFigure /\ pc = "for" /\ param_trace = <<<<w, b>>>>

\* line 329
ForNext ==
    /\ pc = "for"
    /\ IF RangeHasNext(epoch, nb_epochs)
       THEN epoch' = epoch + 1 /\ pc' = "train"
       ELSE epoch' = epoch /\ pc' = "done"
    /\ UNCHANGED <<selectVars, globals, params, nb_epochs, loss_train, loss_val,
                   train_loss_history, val_loss_history, demoVars, figure, param_trace>>

\* line 331
TrainStep ==
    /\ pc = "train"
    /\ \E res \in {train(X_train, Y_train, w, b, lr)} :
           /\ loss_train' = res.out
           /\ w' = res.w /\ b' = res.b
           /\ param_trace' = Append(param_trace, <<res.w, res.b>>)
    /\ pc' = "append_train"
    /\ UNCHANGED <<selectVars, globals, lr, nb_epochs, epoch, loss_val,
                   train_loss_history, val_loss_history, demoVars, figure>>

\* line 332
AppendTrainLoss ==
    /\ pc = "append_train"
    /\ train_loss_history' = Append(train_loss_history, loss_train)
    /\ pc' = "val"
    /\ UNCHANGED <<selectVars, globals, params, nb_epochs, epoch, loss_train, loss_val,
                   val_loss_history, demoVars, figure, param_trace>>

\* line 335
ComputeValLoss ==
    /\ pc = "val"
    /\ \E res \in {compute_loss(X_val, Y_val, w, b, lr)} :
           /\ loss_val' = res.out
           /\ w' = res.w /\ b' = res.b
    /\ pc' = "append_val"
    /\ UNCHANGED <<selectVars, globals, lr, nb_epochs, epoch, loss_train,
                   train_loss_history, val_loss_history, demoVars, figure, param_trace>>

\* line 336
AppendValLoss ==
    /\ pc = "append_val"
    /\ val_loss_history' = Append(val_loss_history, loss_val)
    /\ pc' = "plot"
    /\ UNCHANGED <<selectVars, globals, params, nb_epochs, epoch, loss_train, loss_val,
                   train_loss_history, demoVars, figure, param_trace>>

\* lines 339-356, epoch % 10 == 0: K.eval(w) reads w; the figure shows the
\* weights and both histories, and the two losses are printed
PlotAndPrint ==
    /\ pc = "plot" /\ epoch % PlotEvery = 0
    /\ figure' = [kind |-> "training", epoch |-> epoch, cur_w |-> w,
                  train |-> train_loss_history, val |-> val_loss_history]
    /\ pc' = "for"
    /\ UNCHANGED <<selectVars, globals, params, loopVars, demoVars, param_trace>>

\* line 339, epoch % 10 != 0
SkipPlot ==
    /\ pc = "plot" /\ epoch % PlotEvery # 0
    /\ pc' = "for"
    /\ UNCHANGED <<selectVars, globals, params, loopVars, demoVars, figure, param_trace>>

NextTrain ==
    \/ ForNext
    \/ TrainStep
    \/ AppendTrainLoss
    \/ ComputeValLoss
    \/ AppendValLoss
    \/ PlotAndPrint
    \/ SkipPlot

\* line 377
NewFigure ==
    /\ pc = "done"
    /\ figure' = [kind |-> "empty"]
    /\ pc' = "sample"
    /\ UNCHANGED <<selectVars, globals, params, loopVars, demoVars, param_trace>>

\* lines 379-380: np.random.randint(0, n) draws from 0..n-1 and raises
\* ValueError for n = 0
Sample ==
    /\ pc = "sample"
    /\ IF Len(X_val) = 0
       THEN pc' = "raised" /\ UNCHANGED <<r, sample>>
       ELSE \E k \in 0..(Len(X_val) - 1) :
                r' = k /\ sample' = X_val[k + 1] /\ pc' = "predict"
    /\ UNCHANGED <<selectVars, globals, params, loopVars, prediction, figure, param_trace>>

\* line 381
Predict ==
    /\ pc = "predict"
    /\ \E res \in {predict(sample, w, b)} :
           /\ prediction' = round(res.out)
           /\ w' = res.w /\ b' = res.b
    /\ pc' = "show"
    /\ UNCHANGED <<selectVars, globals, lr, loopVars, r, sample, figure, param_trace>>

\* lines 382-386
Show ==
    /\ pc = "show"
    /\ figure' = [kind |-> "demo", image |-> sample,
                  prediction |-> prediction, label |-> LabelAt(Y_val, r)]
    /\ pc' = "wait"
    /\ UNCHANGED <<selectVars, globals, params, loopVars, demoVars, param_trace>>

\* line 387: the user presses a key or a button, and the loop starts over
WaitForButtonPress ==
    /\ pc = "wait"
    /\ pc' = "sample"
    /\ UNCHANGED <<selectVars, globals, params, loopVars, demoVars, figure, param_trace>>

NextDemo ==
    \/ NewFigure
    \/ Sample
    \/ Predict
    \/ Show
    \/ WaitForButtonPress

NextRun == NextTrain \/ NextDemo

SpecRun == InitRun /\ [][NextRun]_vars

(***************************************************************************)
(* Properties of select_classes_from_cifar10                               *)
(***************************************************************************)
Ended == ret.kind # "running"

Known(c) == \E i \in DOMAIN allowed : allowed[i] = c

\* the 0-based position of a known name in the ten-class vocabulary
ClassNumber(c) == (CHOOSE i \in DOMAIN allowed : allowed[i] = c) - 1

TwoDistinctKnown ==
    /\ Len(classes) = 2
    /\ classes[1] # classes[2]
    /\ Known(classes[1]) /\ Known(classes[2])

KeptPositions(Y, wanted) == {i \in DOMAIN Y : Y[i] \in wanted}

\* the k-th smallest element of a set of integers
Nth(S, k) == CHOOSE x \in S : Cardinality({y \in S : y < x}) = k - 1

\* out holds exactly the examples of raw at the kept positions, in raw order,
\* labelled 0 for class number lo and 1 for class number hi
SplitSelected(raw, out, lo, hi) ==
    LET K == KeptPositions(raw.Y, {lo, hi})
    IN  /\ Len(out.X) = Cardinality(K)
        /\ Len(out.Y) = Cardinality(K)
        /\ \A k \in 1..Cardinality(K) :
              LET p == Nth(K, k)
              IN  /\ DOMAIN out.X[k] = DOMAIN raw.X[p]
                  /\ \A j \in DOMAIN raw.X[p] : out.X[k][j].num = raw.X[p][j]
                  /\ out.Y[k] = IF raw.Y[p] = lo THEN 0 ELSE 1

PairSelected ==
    LET c1 == ClassNumber(classes[1])
        c2 == ClassNumber(classes[2])
        lo == IF c1 < c2 THEN c1 ELSE c2
        hi == IF c1 < c2 THEN c2 ELSE c1
    IN  /\ SplitSelected(dataset.train, ret.train, lo, hi)
        /\ SplitSelected(dataset.val, ret.val, lo, hi)

BadClassArguments ==
    Len(classes) <= 1 \/ \E i \in DOMAIN classes : ~ Known(classes[i])

\* C2: a class list with zero or one name, or with a name outside the ten
\* allowed names, ends the call with ValueError; the error is raised before
\* any mask is computed and before X or Y is filtered, relabelled or
\* normalised, and nothing is returned.
C2_BadArgumentsRaiseEarly ==
    BadClassArguments =>
        /\ ret.kind # "return"
        /\ frame.pc \in {"validate", "unpack", "c_idx", "raised"}
        /\ frame.names \cap {"idx_train", "idx_val", "s"} = {}
        /\ frame.X_train \in {<<>>, dataset.train.X}
        /\ frame.Y_train \in {<<>>, dataset.train.Y}
        /\ frame.X_val \in {<<>>, dataset.val.X}
        /\ frame.Y_val \in {<<>>, dataset.val.Y}
        /\ (ret.kind = "running" => ENABLED (Validate \/ Unpack \/ ComputeClassIndexes))
        /\ (ret.kind = "raise" => ret.exc = "ValueError" /\ ret.line \in {114, 118})

C2_Witness ==
    /\ Len(classes) > 1
    /\ \E i \in DOMAIN classes : ~ Known(classes[i])
    /\ ret = RaiseValueError(118)
    /\ "X_train" \in frame.names

InUnit(q) == q.den > 0 /\ 0 <= q.num /\ q.num <= q.den

Features(X) == UNION {Range(X[i]) : i \in DOMAIN X}

\* the maximum raw pixel over the train examples of the selected classes
SelectedTrainMax ==
    LET wanted == {ClassNumber(classes[i]) : i \in DOMAIN classes}
        K == KeptPositions(dataset.train.Y, wanted)
    IN  Max(UNION {Range(dataset.train.X[p]) : p \in K})

DividedByTrainMax ==
    \A q \in Features(ret.train.X) \cup Features(ret.val.X) : q.den = SelectedTrainMax

\* C6 as stated: both splits are divided by the maximum pixel of the
\* filtered train split and every returned feature lies in [0,1].
C6_AllFeaturesInUnit ==
    ret.kind = "return" =>
        /\ DividedByTrainMax
        /\ \A q \in Features(ret.train.X) \cup Features(ret.val.X) : InUnit(q)

\* C6 amended: both splits are divided by the maximum pixel M of the
\* filtered train split; when M > 0 every returned train feature lies in
\* [0,1]; a returned validation feature lies in [0,1] exactly when M > 0
\* and its raw pixel is at most M.
C6_TrainMaxNormalisation ==
    ret.kind = "return" =>
        /\ DividedByTrainMax
        /\ (SelectedTrainMax > 0 => \A q \in Features(ret.train.X) : InUnit(q))
        /\ \A q \in Features(ret.val.X) :
              InUnit(q) <=> (SelectedTrainMax > 0 /\ q.num <= SelectedTrainMax)

C6_Witness ==
    /\ ret.kind = "return"
    /\ \E q \in Features(ret.val.X) : q.den > 0 /\ q.num > q.den
    /\ Len(ret.train.X) < Len(dataset.train.X)
    /\ MatrixMax(dataset.train.X) > SelectedTrainMax

\* C7 as stated: for every class list the call accepts, every returned
\* label of either split is 0 or 1, and both 0 and 1 are the label of some
\* selected class.
C7_LabelsAreBinary ==
    ret.kind = "return" =>
        /\ \A i \in DOMAIN ret.train.Y : ret.train.Y[i] \in {0, 1}
        /\ \A i \in DOMAIN ret.val.Y : ret.val.Y[i] \in {0, 1}
        /\ {0, 1} \subseteq {ListIndex(frame.s, frame.c_idx[i]) : i \in DOMAIN frame.c_idx}

Perms(q) ==
    {[i \in DOMAIN q |-> q[f[i]]] :
        f \in {g \in [DOMAIN q -> DOMAIN q] : \A i, j \in DOMAIN q : g[i] = g[j] => i = j}}

\* C9: for every class list the call accepts, a call with any permutation
\* of the list on the same dataset ends the same way: the same selected
\* examples with the same labels.
C9_OrderOfClassesIrrelevant ==
    (Ended /\ ~ BadClassArguments) =>
        \A p \in Perms(classes) : SelectOutcome(dataset, p) = ret

C9_Witness ==
    /\ ret.kind = "return" /\ Len(classes) >= 2
    /\ ClassNumber(classes[1]) > ClassNumber(classes[2])
    /\ \E i, j \in DOMAIN ret.train.Y : ret.train.Y[i] = 0 /\ ret.train.Y[j] = 1

(***************************************************************************)
(* Properties of the training cell and of the inference cell               *)
(***************************************************************************)
Updates == Len(param_trace) - 1

\* the loss of a split at the parameters held after k updates
LossAfter(X, Y, k) == Loss(X, Y, param_trace[k + 1][1], param_trace[k + 1][2])

IsPrefix(p, q) == Len(p) <= Len(q) /\ \A i \in DOMAIN p : p[i] = q[i]

TrainingPcs == {"for", "train", "append_train", "val", "append_val", "plot"}
DemoPcs == {"sample", "predict", "show", "wait"}

\* C3: one call of train replaces (w, b) by (w - lr * gw, b - lr * gb) with
\* both gradients of the training loss taken at the parameters held before
\* the call; lr is 0.1 and no step changes it.
C3_SimultaneousUpdate ==
    [][/\ lr = LearningRate /\ lr' = lr
       /\ (pc = "train" /\ pc' # pc) =>
            /\ w' = [j \in DOMAIN w |->
                        w[j] - ((LrNum * GradW(X_train, Y_train, w, b)[j]) \div LrDen)]
            /\ b' = b - ((LrNum * GradB(X_train, Y_train, w, b)) \div LrDen)]_vars

C3_Witness ==
    /\ pc = "append_train" /\ Updates >= 1
    /\ LET old == param_trace[Updates]
       IN  /\ w # old[1] /\ b # old[2]
           /\ GradB(X_train, Y_train, w, old[2]) # GradB(X_train, Y_train, old[1], old[2])

PcRank ==
    [p \in TrainingPcs |->
        CASE p = "for" -> 1 [] p = "plot" -> 2 [] p = "append_val" -> 3
          [] p = "val" -> 4 [] p = "append_train" -> 5 [] p = "train" -> 6]

\* the number of steps the training cell still has to take
StepsLeft ==
    IF pc \in TrainingPcs
    THEN Cardinality(TrainingPcs) * (nb_epochs - epoch - 1) + PcRank[pc]
    ELSE 0

C4_Counts ==
    /\ nb_epochs >= 0
    /\ pc \in TrainingPcs => StepsLeft >= 1
    /\ pc \in {"for", "append_train", "append_val", "plot"} => ENABLED NextTrain
    /\ pc = "train" =>
        /\ 0 <= epoch /\ epoch < nb_epochs
        /\ Updates = epoch
        /\ Len(train_loss_history) = epoch /\ Len(val_loss_history) = epoch
    /\ pc \notin TrainingPcs =>
        /\ Updates = nb_epochs
        /\ Len(train_loss_history) = nb_epochs /\ Len(val_loss_history) = nb_epochs

\* C4: for every nb_epochs >= 0 the training loop ends, after exactly
\* nb_epochs iterations: iteration k starts with k updates applied and k
\* entries in each history, entries once appended stay as they are, and at
\* the end nb_epochs updates are applied and each history has nb_epochs
\* entries.  It ends because it can always take a step and every step
\* lowers StepsLeft, which is 0 only at the end.
C4_RunsExactlyNbEpochs ==
    /\ []C4_Counts
    /\ [][/\ IsPrefix(train_loss_history, train_loss_history')
          /\ IsPrefix(val_loss_history, val_loss_history')
          /\ pc \in TrainingPcs => StepsLeft' = StepsLeft - 1]_vars

C4_Witness ==
    /\ pc = "done" /\ nb_epochs = MaxEpochs
    /\ Updates = MaxEpochs /\ Len(val_loss_history) = MaxEpochs

\* C5: w and b change only in the train call of the training loop: the
\* compute_loss call, the plotting, the predict call and every other step
\* leave them as they are.
C5_OnlyTrainChangesParameters ==
    [][(w' # w \/ b' # b) => (pc = "train" /\ pc' = "append_train")]_vars

C5_Witness ==
    /\ pc = "wait" /\ Updates >= 1
    /\ val_loss_history # <<>>
    /\ <<w, b>> = param_trace[Len(param_trace)]
    /\ <<w, b>> # param_trace[1]

\* C8: in epoch k the training loss is evaluated at the parameters of the
\* start of the epoch, then the update is applied, then that loss is
\* appended, then the validation loss is evaluated at the updated parameters
\* and appended: train_loss_history[k] is the training loss after k updates,
\* val_loss_history[k] the validation loss after k + 1 updates, and the
\* training loss of the final parameters is not evaluated.
C8_OrderWithinEpoch ==
    /\ pc \in {"for", "done"} =>
          /\ \A k \in DOMAIN train_loss_history :
                train_loss_history[k] = LossAfter(X_train, Y_train, k - 1)
          /\ \A k \in DOMAIN val_loss_history :
                val_loss_history[k] = LossAfter(X_val, Y_val, k)
    /\ pc = "train" =>
          /\ Updates = epoch
          /\ Len(train_loss_history) = epoch /\ Len(val_loss_history) = epoch
    /\ pc = "append_train" =>
          /\ Updates = epoch + 1
          /\ loss_train = LossAfter(X_train, Y_train, epoch)
          /\ Len(train_loss_history) = epoch /\ Len(val_loss_history) = epoch
    /\ pc = "val" =>
          /\ Updates = epoch + 1
          /\ train_loss_history[epoch + 1] = LossAfter(X_train, Y_train, epoch)
          /\ Len(train_loss_history) = epoch + 1 /\ Len(val_loss_history) = epoch
    /\ pc = "append_val" =>
          /\ Updates = epoch + 1
          /\ loss_val = LossAfter(X_val, Y_val, epoch + 1)
          /\ Len(train_loss_history) = epoch + 1 /\ Len(val_loss_history) = epoch
    /\ pc = "plot" =>
          /\ Updates = epoch + 1
          /\ val_loss_history[epoch + 1] = LossAfter(X_val, Y_val, epoch + 1)
          /\ Len(train_loss_history) = epoch + 1 /\ Len(val_loss_history) = epoch + 1
    /\ pc \notin TrainingPcs => Len(train_loss_history) = Updates

C8_Witness ==
    /\ pc = "done" /\ nb_epochs >= 2
    /\ val_loss_history[1] # LossAfter(X_val, Y_val, 0)
    /\ train_loss_history[2] # LossAfter(X_train, Y_train, 2)
    /\ \A k \in DOMAIN train_loss_history :
          train_loss_history[k] # LossAfter(X_train, Y_train, nb_epochs)

C10_Iteration ==
    Y_val # <<>> =>
        /\ pc # "raised"
        /\ pc \in DemoPcs => ENABLED NextDemo
        /\ pc \in {"predict", "show", "wait"} =>
              /\ r \in 0..(Len(X_val) - 1)
              /\ sample = X_val[r + 1]
        /\ pc \in {"show", "wait"} =>
              /\ prediction \in {0, 1}
              /\ prediction = 1 <=> 2 * Output(X_val[r + 1], w, b) >= Unit
        /\ pc = "wait" =>
              /\ figure.kind = "demo"
              /\ figure.prediction = prediction
              /\ figure.label = Y_val[r + 1]

\* C10: with a non-empty validation split the inference loop has no
\* terminal state: every iteration draws r with 0 <= r < len(X_val), rounds
\* the model's output for X_val[r] to 0 or 1, shows it with Y_val[r], waits
\* for the user, and the next iteration starts.
C10_DemoLoopsForever ==
    /\ []C10_Iteration
    /\ [][/\ pc = "sample" => pc' \in {"predict", "raised"}
          /\ pc = "predict" => pc' = "show"
          /\ pc = "show" => pc' = "wait"
          /\ pc = "wait" => pc' = "sample"]_vars

C10_Witness ==
    /\ pc = "wait" /\ r = 1
    /\ Y_val[1] # Y_val[2]
    /\ figure.label = Y_val[2]
    /\ Updates >= 1

=============================================================================
